---- MODULE Spec2Model ----
(***************************************************************************)
(* State-machine model of three Conan recipes:                             *)
(*   recipes/imagemagick6/all/conanfile.py      (ImageMagick6Conan)        *)
(*   recipes/cppcheck/all/conanfile.py          (CppcheckConan)            *)
(*   recipes/vectorscan/all/test_package/conanfile.py (TestPackageConan)   *)
(* One run of a recipe is a sequence of recipe methods; pc is the method   *)
(* (or the external call inside a method) that runs next.  Option values   *)
(* are kept the way Conan keeps them, as the str() of the declared Python  *)
(* value ("True", "False", "None", "16", "libjpeg").                       *)
(***************************************************************************)
EXTENDS Integers, Sequences, FiniteSets, TLC

VARIABLES
    recipe,     \* which recipe this run executes
    version,    \* self.version
    os,         \* self.settings.os
    options,    \* self.options: option name -> value, for the options still present
    dep,        \* test package only: [can_run, with_chimera] of the tested dependency
    pc,         \* position of the run
    requires,   \* references passed to self.requires(), in call order
    invalid,    \* TRUE once ConanInvalidConfiguration has been raised
    warnings,   \* self.output.warning() messages, in call order
    tc,         \* the toolchain object filled by generate()
    steps,      \* external calls made so far (get, patches, configure, make, ...)
    cpp_info,   \* self.cpp_info / self.runenv_info filled by package_info()
    peer        \* SpecPair only: a second imagemagick6 configuration and its toolchain

vars == <<recipe, version, os, options, dep, pc, requires, invalid, warnings,
          tc, steps, cpp_info, peer>>

-----------------------------------------------------------------------------
(* Bounds of the model *)

\* number of options a profile sets to a non-default value in one run
MaxOverrides == 2

\* SpecPair: number of non-default options of the first configuration, and number
\* of options in which the second configuration differs from the first
MaxPairOverrides == 1
MaxDiff == 1

-----------------------------------------------------------------------------
(* String helpers: strings are indexed with SubSeq(s, i, i) *)

CharAt(s, i) == SubSeq(s, i, i)

\* s.find(ch) + 1 : index of the first occurrence of the 1-char string ch, 0 if none
RECURSIVE FindFrom(_, _, _)
FindFrom(s, ch, i) ==
    IF i > Len(s) THEN 0
    ELSE IF CharAt(s, i) = ch THEN i
    ELSE FindFrom(s, ch, i + 1)

Find(s, ch) == FindFrom(s, ch, 1)

\* s.split(ch, 1)[0] and the rest after the separator ("" if there is none)
Before(s, ch) ==
    LET k == Find(s, ch) IN IF k = 0 THEN s ELSE SubSeq(s, 1, k - 1)
After(s, ch) ==
    LET k == Find(s, ch) IN IF k = 0 THEN "" ELSE SubSeq(s, k + 1, Len(s))

\* s.split(ch) as a sequence of strings
RECURSIVE Split(_, _)
Split(s, ch) ==
    IF Find(s, ch) = 0 THEN <<s>>
    ELSE <<Before(s, ch)>> \o Split(After(s, ch), ch)

Digits == <<"0", "1", "2", "3", "4", "5", "6", "7", "8", "9">>

IsDigit(c) == \E d \in 1..10 : Digits[d] = c

DigitVal(c) == (CHOOSE d \in 1..10 : Digits[d] = c) - 1

IsNumber(s) == Len(s) > 0 /\ \A i \in 1..Len(s) : IsDigit(CharAt(s, i))

\* int(s) for a string of decimal digits
RECURSIVE ParseInt(_)
ParseInt(s) ==
    IF Len(s) = 0 THEN 0
    ELSE 10 * ParseInt(SubSeq(s, 1, Len(s) - 1)) + DigitVal(CharAt(s, Len(s)))

\* os.path.join on POSIX
PathJoin(a, b) == a \o "/" \o b

-----------------------------------------------------------------------------
(* conan.tools.scm.Version, as the recipes use it *)

\* the version without its "+build" and "-pre" parts
VersionMainStr(v) == Before(Before(v, "+"), "-")

\* Version(v).major, as interpolated into an f-string
VersionMajor(v) == Before(VersionMainStr(v), ".")

\* the numeric items of the main part, trailing zeros dropped (1.0 == 1)
RECURSIVE DropTrailingZeros(_)
DropTrailingZeros(t) ==
    IF Len(t) > 0 /\ t[Len(t)] = 0 THEN DropTrailingZeros(SubSeq(t, 1, Len(t) - 1))
    ELSE t

VersionItems(v) ==
    LET parts == Split(VersionMainStr(v), ".")
    IN  DropTrailingZeros([i \in 1..Len(parts) |-> ParseInt(parts[i])])

\* tuple comparison a < b
RECURSIVE TupleLess(_, _)
TupleLess(a, b) ==
    IF Len(b) = 0 THEN FALSE
    ELSE IF Len(a) = 0 THEN TRUE
    ELSE IF a[1] # b[1] THEN a[1] < b[1]
    ELSE TupleLess(Tail(a), Tail(b))

\* Version(a) < Version(b): main items first, then a pre-release sorts first
VersionLess(a, b) ==
    \/ TupleLess(VersionItems(a), VersionItems(b))
    \/ /\ VersionItems(a) = VersionItems(b)
       /\ Find(a, "-") # 0
       /\ Find(b, "-") = 0

VersionGeq(a, b) == ~VersionLess(a, b)

-----------------------------------------------------------------------------
(* The recipes and their declared options *)

IM  == "imagemagick6"
CPP == "cppcheck"
TP  == "vectorscan/test_package"

Recipes == {IM, CPP, TP}

BoolValues == <<"True", "False">>

\* ImageMagick6Conan.options
IMOptions ==
    [ shared        |-> BoolValues,
      fPIC          |-> BoolValues,
      hdri          |-> BoolValues,
      quantum_depth |-> <<"8", "16", "32">>,
      with_zlib     |-> BoolValues,
      with_bzlib    |-> BoolValues,
      with_lzma     |-> BoolValues,
      with_lcms     |-> BoolValues,
      with_openexr  |-> BoolValues,
      with_heic     |-> BoolValues,
      with_jbig     |-> BoolValues,
      with_jpeg     |-> <<"None", "libjpeg", "libjpeg-turbo">>,
      with_openjp2  |-> BoolValues,
      with_pango    |-> BoolValues,
      with_png      |-> BoolValues,
      with_tiff     |-> BoolValues,
      with_webp     |-> BoolValues,
      with_xml2     |-> BoolValues,
      with_freetype |-> BoolValues,
      with_djvu     |-> BoolValues,
      utilities     |-> BoolValues ]

\* default_options naming a JPEG backend the option does not list
IMDefaultOptionsBadJpeg ==
    [ shared        |-> "False",
      fPIC          |-> "True",
      hdri          |-> "True",
      quantum_depth |-> "16",
      with_zlib     |-> "True",
      with_bzlib    |-> "True",
      with_lzma     |-> "True",
      with_lcms     |-> "True",
      with_openexr  |-> "False",
      with_heic     |-> "True",
      with_jbig     |-> "True",
      with_jpeg     |-> "jpeg",
      with_openjp2  |-> "True",
      with_pango    |-> "False",
      with_png      |-> "True",
      with_tiff     |-> "True",
      with_webp     |-> "True",
      with_xml2     |-> "False",
      with_freetype |-> "False",
      with_djvu     |-> "False",
      utilities     |-> "True" ]

\* ImageMagick6Conan.default_options
IMDefaultOptions ==
    [ shared        |-> "False",
      fPIC          |-> "True",
      hdri          |-> "True",
      quantum_depth |-> "16",
      with_zlib     |-> "True",
      with_bzlib    |-> "True",
      with_lzma     |-> "True",
      with_lcms     |-> "True",
      with_openexr  |-> "False",
      with_heic     |-> "True",
      with_jbig     |-> "True",
      with_jpeg     |-> "libjpeg",
      with_openjp2  |-> "True",
      with_pango    |-> "False",
      with_png      |-> "True",
      with_tiff     |-> "True",
      with_webp     |-> "True",
      with_xml2     |-> "False",
      with_freetype |-> "False",
      with_djvu     |-> "False",
      utilities     |-> "True" ]

\* CppcheckConan.options
CppOptions == [ have_rules |-> BoolValues ]

\* CppcheckConan.default_options
CppDefaultOptions == [ have_rules |-> "True" ]

\* the test package declares no options
NoOptions == [n \in {} |-> <<>>]

DeclaredOptions(r) ==
    IF r = IM THEN IMOptions ELSE IF r = CPP THEN CppOptions ELSE NoOptions

DefaultOptions(r) ==
    IF r = IM THEN IMDefaultOptions ELSE IF r = CPP THEN CppDefaultOptions ELSE NoOptions

Range(f) == {f[x] : x \in DOMAIN f}

\* the configurations a profile can ask for: the defaults with at most k options
\* set to another value of their declared list
RECURSIVE Overrides(_, _, _)
Overrides(decl, base, k) ==
    IF k = 0 THEN {base}
    ELSE LET prev == Overrides(decl, base, k - 1)
         IN  prev \cup { [o EXCEPT ![n] = v] :
                           o \in prev, <<n, v>> \in UNION { {n} \X Range(decl[n]) : n \in DOMAIN decl } }

\* the truth value of an option: PackageOption.__bool__
Truthy(v) == v \notin {"False", "false", "None", "none", "0", "off", "Off", ""}

\* options.get_safe(name, default)
GetSafe(opts, name, default) == IF name \in DOMAIN opts THEN opts[name] ELSE default

\* del options.name / options.rm_safe(name)
RmSafe(opts, name) == [n \in DOMAIN opts \ {name} |-> opts[n]]

\* settings.os values of the runs, and conan.tools.apple.is_apple_os
OSValues == {"Linux", "Macos", "Windows"}

is_apple_os(o) == o \in {"Macos", "iOS", "watchOS", "tvOS", "visionOS"}

\* versions the recipes are run for (conandata.yml: sources)
IMVersions  == {"6.9.12-85", "7.1.1-38"}
CppVersions == {"2.10.3", "2.12.1", "2.14.0"}
TPVersions  == {"5.4.11"}

VersionsOf(r) == IF r = IM THEN IMVersions ELSE IF r = CPP THEN CppVersions ELSE TPVersions

-----------------------------------------------------------------------------
(* ImageMagick6Conan *)

\* a call made only when its condition holds
When(cond, calls) == IF cond THEN calls ELSE <<>>

\* _modules
_modules == <<"MagickCore", "MagickWand", "Magick++">>

\* config_options(): fPIC is dropped on Windows
IMConfigOptions(o, opts) == IF o = "Windows" THEN RmSafe(opts, "fPIC") ELSE opts

\* configure(): fPIC is dropped for a shared build
IMConfigure(opts) == IF Truthy(opts.shared) THEN RmSafe(opts, "fPIC") ELSE opts

\* validate() without the Windows check
IMValidateAcceptsAll(o, opts) == FALSE

\* validate() rejecting Pango on macOS instead of warning
IMValidateRaisesPango(o, opts) ==
    o = "Windows" \/ (Truthy(opts.with_pango) /\ o = "Macos")

\* validate(): TRUE when ConanInvalidConfiguration is raised
IMValidateRaises(o, opts) == o = "Windows"

PangoWarning ==
    "Building ImageMagick with Pango on macOS might require X11/Quartz or specific setup."
DjvuWarning ==
    "Conan package for DjVuLibre is not commonly available. Ensure it's system-installed if this option is True."

\* validate(): the warnings written before it returns (none when it raises)
IMValidateWarnings(o, opts) ==
    IF IMValidateRaises(o, opts) THEN <<>>
    ELSE When(Truthy(opts.with_pango) /\ o = "Macos", <<PangoWarning>>)
         \o When(Truthy(opts.with_djvu), <<DjvuWarning>>)

\* requirements() requiring libjpeg for every JPEG backend
IMRequirementsJpegTruthy(opts) ==
    IF Truthy(opts.with_jpeg) THEN <<"libjpeg/9e">> ELSE <<>>

\* requirements(): the JPEG backend
IMRequirementsJpeg(opts) ==
    IF opts.with_jpeg = "libjpeg" THEN <<"libjpeg/9e">>
    ELSE IF opts.with_jpeg = "libjpeg-turbo" THEN <<"libjpeg-turbo/3.0.3">>
    ELSE <<>>

\* requirements() with a libtiff range that no version satisfies
IMRequirementsTiffEmptyRange(opts) ==
    When(Truthy(opts.with_tiff), <<"libtiff/[>=4.6.0 <4]", "zstd/1.5.7">>)

\* requirements(): TIFF and the zstd it needs
IMRequirementsTiff(opts) ==
    When(Truthy(opts.with_tiff), <<"libtiff/[>=4.6.0 <5]", "zstd/1.5.7">>)

\* requirements(): the references required, in call order
IMRequirements(opts) ==
       When(Truthy(opts.with_zlib),     <<"zlib/1.3.1">>)
    \o When(Truthy(opts.with_bzlib),    <<"bzip2/1.0.8">>)
    \o When(Truthy(opts.with_lzma),     <<"xz_utils/[>=5.4.5 <6]">>)
    \o When(Truthy(opts.with_lcms),     <<"lcms/2.16">>)
    \o When(Truthy(opts.with_openexr),  <<"openexr/3.1.9">>)
    \o When(Truthy(opts.with_heic),     <<"libheif/[>=1.16.2 <2]">>)
    \o When(Truthy(opts.with_jbig),     <<"jbig/20160605">>)
    \o IMRequirementsJpeg(opts)
    \o When(Truthy(opts.with_openjp2),  <<"openjpeg/[>=2.5.2 <3]">>)
    \o When(Truthy(opts.with_pango),    <<"pango/1.50.14">>)
    \o When(Truthy(opts.with_png),      <<"libpng/[>=1.6.48 <2]">>)
    \o IMRequirementsTiff(opts)
    \o When(Truthy(opts.with_webp),     <<"libwebp/[>=1.3.2 <2]">>)
    \o When(Truthy(opts.with_xml2),     <<"libxml2/2.12.7">>)
    \o When(Truthy(opts.with_freetype), <<"freetype/2.13.2">>)

\* yes_no testing for None instead of truth
yes_noNotNone(opt_value) == IF opt_value # "None" THEN "yes" ELSE "no"

\* generate(): yes_no
yes_no(opt_value) == IF Truthy(opt_value) THEN "yes" ELSE "no"

\* not self.options.shared, as a value yes_no takes
PyNot(opt_value) == IF Truthy(opt_value) THEN "False" ELSE "True"

\* generate(): configure_args
IMConfigureArgs(opts) ==
    << "--disable-openmp",
       "--disable-opencl",
       "--disable-docs",
       "--with-perl=no",
       "--with-x=no",
       "--with-fontconfig=" \o yes_no(opts.with_pango),
       "--without-dps",
       "--without-fftw",
       "--without-fpx",
       "--without-raw",
       "--without-wmf",
       "--enable-shared=" \o yes_no(opts.shared),
       "--enable-static=" \o yes_no(PyNot(opts.shared)),
       "--enable-hdri=" \o yes_no(opts.hdri),
       "--with-quantum-depth=" \o opts.quantum_depth,
       "--with-zlib=" \o yes_no(opts.with_zlib),
       "--with-bzlib=" \o yes_no(opts.with_bzlib),
       "--with-lzma=" \o yes_no(opts.with_lzma),
       "--with-lcms=" \o yes_no(opts.with_lcms),
       "--with-openexr=" \o yes_no(opts.with_openexr),
       "--with-heic=" \o yes_no(opts.with_heic),
       "--with-jbig=" \o yes_no(opts.with_jbig),
       "--with-jpeg=" \o yes_no(opts.with_jpeg),
       "--with-openjp2=" \o yes_no(opts.with_openjp2),
       "--with-pango=" \o yes_no(opts.with_pango),
       "--with-png=" \o yes_no(opts.with_png),
       "--with-tiff=" \o yes_no(opts.with_tiff),
       "--with-webp=" \o yes_no(opts.with_webp),
       "--with-xml=" \o yes_no(opts.with_xml2),
       "--with-freetype=" \o yes_no(opts.with_freetype),
       "--with-djvu=" \o yes_no(opts.with_djvu),
       "--with-utilities=" \o yes_no(opts.utilities) >>

\* the toolchain before generate() has filled it
EmptyToolchain ==
    [ configure_args |-> <<>>, extra_ldflags |-> <<>>, make_args |-> <<>>,
      variables |-> <<>>, cache_variables |-> <<>>, generated |-> FALSE ]

\* generate(): the AutotoolsToolchain as written by tc.generate()
IMGenerate(o, opts) ==
    [ configure_args  |-> IMConfigureArgs(opts),
      extra_ldflags   |-> When(is_apple_os(o) /\ Truthy(opts.shared),
                               <<"-Wl,-headerpad_max_install_names">>),
      make_args       |-> <<"V=1">>,
      variables       |-> <<>>,
      cache_variables |-> <<>>,
      generated       |-> TRUE ]

\* _libname() with the HDRI suffix left out
_libnameNoSuffix(ver, opts, library_base_name) ==
    library_base_name \o "-" \o VersionMajor(ver) \o ".Q" \o opts.quantum_depth

\* _libname(library_base_name)
_libname(ver, opts, library_base_name) ==
    LET im_major == VersionMajor(ver)
        suffix   == IF Truthy(opts.hdri) THEN "HDRI" ELSE ""
    IN  library_base_name \o "-" \o im_major \o ".Q" \o opts.quantum_depth \o suffix

\* package_info() leaving the HDRI suffix out of the pkg-config name
PcConfigNameNoHdri(ver, o, opts, module) ==
    module \o "-" \o VersionMajor(ver) \o ".Q" \o opts.quantum_depth

\* package_info(): pc_config_name_<module>
PcConfigName(ver, o, opts, module) ==
    LET base == module \o "-" \o VersionMajor(ver) \o ".Q" \o opts.quantum_depth
    IN  IF Truthy(opts.hdri) /\ o # "Windows" THEN base \o "HDRI" ELSE base

\* package_info() naming libjpeg for every JPEG backend
IMComponentRequiresJpegTruthy(opts) ==
    IF Truthy(opts.with_jpeg) THEN <<"libjpeg::libjpeg">> ELSE <<>>

\* package_info(): the JPEG backend of the MagickCore component
IMComponentRequiresJpeg(opts) ==
    IF opts.with_jpeg = "libjpeg" THEN <<"libjpeg::libjpeg">>
    ELSE IF opts.with_jpeg = "libjpeg-turbo" THEN <<"libjpeg-turbo::libjpeg-turbo">>
    ELSE <<>>

\* package_info(): the requires appended to the MagickCore component
IMComponentRequires(opts) ==
       When(Truthy(opts.with_zlib),     <<"zlib::zlib">>)
    \o When(Truthy(opts.with_bzlib),    <<"bzip2::bzip2">>)
    \o When(Truthy(opts.with_lzma),     <<"xz_utils::xz_utils">>)
    \o When(Truthy(opts.with_lcms),     <<"lcms::lcms">>)
    \o When(Truthy(opts.with_openexr),  <<"openexr::openexr">>)
    \o When(Truthy(opts.with_heic),     <<"libheif::libheif">>)
    \o When(Truthy(opts.with_jbig),     <<"jbig::jbig">>)
    \o IMComponentRequiresJpeg(opts)
    \o When(Truthy(opts.with_openjp2),  <<"openjpeg::openjpeg">>)
    \o When(Truthy(opts.with_pango),    <<"pango::pango">>)
    \o When(Truthy(opts.with_png),      <<"libpng::libpng">>)
    \o When(Truthy(opts.with_tiff),     <<"libtiff::libtiff", "zstd::zstd">>)
    \o When(Truthy(opts.with_webp),     <<"libwebp::libwebp">>)
    \o When(Truthy(opts.with_xml2),     <<"libxml2::libxml2">>)
    \o When(Truthy(opts.with_freetype), <<"freetype::freetype">>)

\* package_info() with the shared and static defines exchanged
IMDefinesSwapped(opts) ==
    << "MAGICKCORE_QUANTUM_DEPTH=" \o opts.quantum_depth,
       "MAGICKCORE_HDRI_ENABLE=" \o (IF Truthy(opts.hdri) THEN "1" ELSE "0"),
       IF Truthy(opts.shared) THEN "_MAGICKLIB_=1" ELSE "_MAGICKDLL_=1" >>

\* package_info(): the defines of the MagickCore component
IMDefines(opts) ==
    << "MAGICKCORE_QUANTUM_DEPTH=" \o opts.quantum_depth,
       "MAGICKCORE_HDRI_ENABLE=" \o (IF Truthy(opts.hdri) THEN "1" ELSE "0"),
       IF Truthy(opts.shared) THEN "_MAGICKDLL_=1" ELSE "_MAGICKLIB_=1" >>

\* cpp_info before package_info() has run
EmptyCppInfo ==
    [ components |-> <<>>, properties |-> <<>>, includedirs |-> <<"include">>,
      libdirs |-> <<"lib">>, runenv |-> <<>>, filled |-> FALSE ]

\* package_info(): one component
IMComponent(ver, o, opts, module) ==
    LET inc == PathJoin("include", "ImageMagick-" \o VersionMajor(ver))
    IN  [ libs        |-> << _libname(ver, opts, module) >>,
          includedirs |-> IF module = "MagickCore" THEN << PathJoin(inc, "magick") >>
                          ELSE IF module = "MagickWand" THEN << PathJoin(inc, "wand") >>
                          ELSE << PathJoin(inc, "Magick++"), inc >>,
          defines     |-> IF module = "MagickCore" THEN IMDefines(opts) ELSE <<>>,
          system_libs |-> When(module = "MagickCore" /\ o = "Linux", <<"pthread">>),
          requires    |-> IF module = "MagickCore" THEN IMComponentRequires(opts)
                          ELSE IF module = "MagickWand" THEN <<"MagickCore">>
                          ELSE <<"MagickWand">>,
          pkg_config_name   |-> PcConfigName(ver, o, opts, module),
          cmake_target_name |-> "ImageMagick::" \o module ]

\* package_info(): cpp_info and runenv_info as it leaves them
IMPackageInfo(ver, o, opts) ==
    [ components  |-> [m \in Range(_modules) |-> IMComponent(ver, o, opts, m)],
      properties  |-> << <<"cmake_file_name", "ImageMagick">>,
                         <<"cmake_target_name", "ImageMagick::MagickCore">> >>,
      includedirs |-> <<"include">>,
      libdirs     |-> <<"lib">>,
      runenv      |-> When(Truthy(opts.utilities),
                           << <<"PATH", PathJoin("<package_folder>", "bin")>> >>),
      filled      |-> TRUE ]

-----------------------------------------------------------------------------
(* CppcheckConan *)

\* requirements()
CppRequirements(opts) ==
    When(Truthy(GetSafe(opts, "have_rules", "None")), <<"pcre/8.45">>)

\* generate(): the CMakeToolchain as written by tc.generate()
CppGenerate(ver, opts) ==
    [ configure_args  |-> <<>>,
      extra_ldflags   |-> <<>>,
      make_args       |-> <<>>,
      variables       |->    << <<"HAVE_RULES", GetSafe(opts, "have_rules", "False")>>,
                                <<"USE_MATCHCOMPILER", "Auto">>,
                                <<"ENABLE_OSS_FUZZ", "False">> >>
                          \o When(VersionGeq(ver, "2.11.0"), << <<"DISABLE_DMAKE", "True">> >>)
                          \o << <<"FILESDIR", "bin">> >>,
      cache_variables |-> When(VersionLess(ver, "2.14.0"),
                               << <<"CMAKE_POLICY_VERSION_MINIMUM", "3.5">> >>),
      generated       |-> TRUE ]

\* package_info()
CppPackageInfo ==
    [ components  |-> <<>>,
      properties  |-> <<>>,
      includedirs |-> <<>>,
      libdirs     |-> <<>>,
      runenv      |-> << <<"CPPCHECK_HTMLREPORT",
                           PathJoin(PathJoin("<package_folder>", "bin"), "cppcheck-htmlreport")>> >>,
      filled      |-> TRUE ]

-----------------------------------------------------------------------------
(* TestPackageConan (vectorscan) *)

\* requirements(): self.tested_reference_str
TPRequirements(ver) == << "vectorscan/" \o ver >>

\* generate()
TPGenerate(d) ==
    [ configure_args  |-> <<>>,
      extra_ldflags   |-> <<>>,
      make_args       |-> <<>>,
      variables       |-> << <<"BUILD_CHIMERA", IF d.with_chimera THEN "True" ELSE "False">> >>,
      cache_variables |-> <<>>,
      generated       |-> TRUE ]

\* test(): the executables
HsExample == PathJoin("<bindir>", "hs_example")
ChExample == PathJoin("<bindir>", "ch_example")

\* test() running ch_example whatever with_chimera is
TPTestCallsAlwaysCh(d) ==
    IF d.can_run THEN <<HsExample, ChExample>> ELSE <<>>

\* test(): the executables run, in order
TPTestCalls(d) ==
    IF d.can_run THEN <<HsExample>> \o When(d.with_chimera, <<ChExample>>) ELSE <<>>

-----------------------------------------------------------------------------
(* The external calls of build() and package(), in the order of the code *)

IMSourceCalls == <<"get">>

\* build() calling make before configure
IMBuildCallsMakeFirst ==
    <<"apply_conandata_patches", "Autotools.make", "Autotools.configure">>

IMBuildCalls == <<"apply_conandata_patches", "Autotools.configure", "Autotools.make">>

IMPackageCalls(o) ==
       <<"copy LICENSE", "copy COPYING", "Autotools.install">>
    \o When(is_apple_os(o), <<"fix_apple_shared_install_name">>)
    \o <<"rmdir lib/pkgconfig", "rmdir etc", "rmdir share/doc", "rmdir share/man", "rm *.la">>

CppSourceCalls == <<"get">>

CppBuildCalls == <<"apply_conandata_patches", "CMake.configure", "CMake.build">>

CppPackageCalls == <<"copy COPYING", "copy cppcheck-htmlreport", "CMake.install">>

TPBuildCalls == <<"CMake.configure", "CMake.build">>

\* the calls into external tools: a download, a patch, a compiler, the install-name
\* fix of the shared libraries (otool, install_name_tool) or a test executable can
\* fail, and the failure propagates out of the recipe
ExternalTools ==
    { "get", "apply_conandata_patches", "Autotools.configure", "Autotools.make",
      "Autotools.install", "fix_apple_shared_install_name",
      "CMake.configure", "CMake.build", "CMake.install",
      HsExample, ChExample }

Outcomes(call) == IF call \in ExternalTools THEN BOOLEAN ELSE {TRUE}

-----------------------------------------------------------------------------
(* The run *)

\* position: method m, about to make its i-th external call
At(m, i) == [m |-> m, i |-> i]

\* one external call and whether it returned (TRUE) or raised (FALSE)
Call(name, ok) == [call |-> name, ok |-> ok]

\* the methods of a run, in the order Conan calls them
IMMethods  == <<"config_options", "configure", "requirements", "validate", "source",
                "generate", "build", "package", "package_info", "done">>
CppMethods == <<"requirements", "source", "generate", "build", "package",
                "package_info", "done">>
TPMethods  == <<"requirements", "generate", "build", "test", "done">>

MethodsOf(r) == IF r = IM THEN IMMethods ELSE IF r = CPP THEN CppMethods ELSE TPMethods

\* the method after m
NextMethod(r, m) ==
    LET ms == MethodsOf(r)
    IN  ms[(CHOOSE k \in 1..Len(ms) : ms[k] = m) + 1]

\* a method without external calls returns
Return(r, m) == pc' = At(NextMethod(r, m), 1)

\* a method makes its next external call: the call returns and the method goes on
\* (or returns after its last call), or the call raises and the run ends
RunCalls(r, m, calls) ==
    IF Len(calls) = 0
    THEN steps' = steps /\ Return(r, m)
    ELSE \E ok \in Outcomes(calls[pc.i]) :
            /\ steps' = Append(steps, Call(calls[pc.i], ok))
            /\ pc' = IF ~ok THEN At("failed", 1)
                     ELSE IF pc.i < Len(calls) THEN At(m, pc.i + 1)
                     ELSE At(NextMethod(r, m), 1)

NoDep  == [can_run |-> TRUE, with_chimera |-> FALSE]
NoPeer == [options |-> <<>>, tc |-> EmptyToolchain]

Init ==
    /\ recipe \in Recipes
    /\ version \in VersionsOf(recipe)
    /\ os \in OSValues
    /\ options \in Overrides(DeclaredOptions(recipe), DefaultOptions(recipe), MaxOverrides)
    /\ dep \in IF recipe = TP THEN [can_run : BOOLEAN, with_chimera : BOOLEAN] ELSE {NoDep}
    /\ pc = At(MethodsOf(recipe)[1], 1)
    /\ requires = <<>>
    /\ invalid = FALSE
    /\ warnings = <<>>
    /\ tc = EmptyToolchain
    /\ steps = <<>>
    /\ cpp_info = EmptyCppInfo
    /\ peer = NoPeer

(* ImageMagick6Conan *)

IM_config_options ==
    /\ recipe = IM /\ pc.m = "config_options"
    /\ options' = IMConfigOptions(os, options)
    /\ Return(IM, "config_options")
    /\ UNCHANGED <<recipe, version, os, dep, requires, invalid, warnings, tc, steps,
                   cpp_info, peer>>

IM_configure ==
    /\ recipe = IM /\ pc.m = "configure"
    /\ options' = IMConfigure(options)
    /\ Return(IM, "configure")
    /\ UNCHANGED <<recipe, version, os, dep, requires, invalid, warnings, tc, steps,
                   cpp_info, peer>>

IM_requirements ==
    /\ recipe = IM /\ pc.m = "requirements"
    /\ requires' = requires \o IMRequirements(options)
    /\ Return(IM, "requirements")
    /\ UNCHANGED <<recipe, version, os, options, dep, invalid, warnings, tc, steps,
                   cpp_info, peer>>

IM_validate ==
    /\ recipe = IM /\ pc.m = "validate"
    /\ invalid' = IMValidateRaises(os, options)
    /\ warnings' = warnings \o IMValidateWarnings(os, options)
    /\ IF IMValidateRaises(os, options) THEN pc' = At("invalid", 1)
       ELSE Return(IM, "validate")
    /\ UNCHANGED <<recipe, version, os, options, dep, requires, tc, steps, cpp_info, peer>>

IM_source ==
    /\ recipe = IM /\ pc.m = "source"
    /\ RunCalls(IM, "source", IMSourceCalls)
    /\ UNCHANGED <<recipe, version, os, options, dep, requires, invalid, warnings, tc,
                   cpp_info, peer>>

IM_generate ==
    /\ recipe = IM /\ pc.m = "generate"
    /\ tc' = IMGenerate(os, options)
    /\ Return(IM, "generate")
    /\ UNCHANGED <<recipe, version, os, options, dep, requires, invalid, warnings, steps,
                   cpp_info, peer>>

IM_build ==
    /\ recipe = IM /\ pc.m = "build"
    /\ RunCalls(IM, "build", IMBuildCalls)
    /\ UNCHANGED <<recipe, version, os, options, dep, requires, invalid, warnings, tc,
                   cpp_info, peer>>

IM_package ==
    /\ recipe = IM /\ pc.m = "package"
    /\ RunCalls(IM, "package", IMPackageCalls(os))
    /\ UNCHANGED <<recipe, version, os, options, dep, requires, invalid, warnings, tc,
                   cpp_info, peer>>

IM_package_info ==
    /\ recipe = IM /\ pc.m = "package_info"
    /\ cpp_info' = IMPackageInfo(version, os, options)
    /\ Return(IM, "package_info")
    /\ UNCHANGED <<recipe, version, os, options, dep, requires, invalid, warnings, tc,
                   steps, peer>>

(* CppcheckConan *)

Cpp_requirements ==
    /\ recipe = CPP /\ pc.m = "requirements"
    /\ requires' = requires \o CppRequirements(options)
    /\ Return(CPP, "requirements")
    /\ UNCHANGED <<recipe, version, os, options, dep, invalid, warnings, tc, steps,
                   cpp_info, peer>>

Cpp_source ==
    /\ recipe = CPP /\ pc.m = "source"
    /\ RunCalls(CPP, "source", CppSourceCalls)
    /\ UNCHANGED <<recipe, version, os, options, dep, requires, invalid, warnings, tc,
                   cpp_info, peer>>

Cpp_generate ==
    /\ recipe = CPP /\ pc.m = "generate"
    /\ tc' = CppGenerate(version, options)
    /\ Return(CPP, "generate")
    /\ UNCHANGED <<recipe, version, os, options, dep, requires, invalid, warnings, steps,
                   cpp_info, peer>>

Cpp_build ==
    /\ recipe = CPP /\ pc.m = "build"
    /\ RunCalls(CPP, "build", CppBuildCalls)
    /\ UNCHANGED <<recipe, version, os, options, dep, requires, invalid, warnings, tc,
                   cpp_info, peer>>

Cpp_package ==
    /\ recipe = CPP /\ pc.m = "package"
    /\ RunCalls(CPP, "package", CppPackageCalls)
    /\ UNCHANGED <<recipe, version, os, options, dep, requires, invalid, warnings, tc,
                   cpp_info, peer>>

Cpp_package_info ==
    /\ recipe = CPP /\ pc.m = "package_info"
    /\ cpp_info' = CppPackageInfo
    /\ Return(CPP, "package_info")
    /\ UNCHANGED <<recipe, version, os, options, dep, requires, invalid, warnings, tc,
                   steps, peer>>

(* TestPackageConan *)

TP_requirements ==
    /\ recipe = TP /\ pc.m = "requirements"
    /\ requires' = requires \o TPRequirements(version)
    /\ Return(TP, "requirements")
    /\ UNCHANGED <<recipe, version, os, options, dep, invalid, warnings, tc, steps,
                   cpp_info, peer>>

TP_generate ==
    /\ recipe = TP /\ pc.m = "generate"
    /\ tc' = TPGenerate(dep)
    /\ Return(TP, "generate")
    /\ UNCHANGED <<recipe, version, os, options, dep, requires, invalid, warnings, steps,
                   cpp_info, peer>>

TP_build ==
    /\ recipe = TP /\ pc.m = "build"
    /\ RunCalls(TP, "build", TPBuildCalls)
    /\ UNCHANGED <<recipe, version, os, options, dep, requires, invalid, warnings, tc,
                   cpp_info, peer>>

TP_test ==
    /\ recipe = TP /\ pc.m = "test"
    /\ RunCalls(TP, "test", TPTestCalls(dep))
    /\ UNCHANGED <<recipe, version, os, options, dep, requires, invalid, warnings, tc,
                   cpp_info, peer>>

Next ==
    \/ IM_config_options \/ IM_configure \/ IM_requirements \/ IM_validate
    \/ IM_source \/ IM_generate \/ IM_build \/ IM_package \/ IM_package_info
    \/ Cpp_requirements \/ Cpp_source \/ Cpp_generate \/ Cpp_build \/ Cpp_package
    \/ Cpp_package_info
    \/ TP_requirements \/ TP_generate \/ TP_build \/ TP_test

Spec == Init /\ [][Next]_vars

-----------------------------------------------------------------------------
(* Two imagemagick6 configurations side by side: generate() runs on both *)

InitPair ==
    /\ recipe = IM
    /\ version \in IMVersions
    /\ \E base \in Overrides(IMOptions, IMDefaultOptions, MaxPairOverrides) :
         /\ os \in {o \in OSValues : ~IMValidateRaises(o, base)}
         /\ options = IMConfigure(IMConfigOptions(os, base))
         /\ \E other \in Overrides(IMOptions, base, MaxDiff) :
              peer = [ options |-> IMConfigure(IMConfigOptions(os, other)),
                       tc      |-> EmptyToolchain ]
    /\ dep = NoDep
    /\ pc = At("generate", 1)
    /\ requires = IMRequirements(options)
    /\ invalid = FALSE
    /\ warnings = IMValidateWarnings(os, options)
    /\ tc = EmptyToolchain
    /\ steps = <<Call("get", TRUE)>>
    /\ cpp_info = EmptyCppInfo

\* generate() of the second configuration
Peer_generate ==
    /\ recipe = IM
    /\ ~peer.tc.generated
    /\ peer' = [peer EXCEPT !.tc = IMGenerate(os, peer.options)]
    /\ UNCHANGED <<recipe, version, os, options, dep, pc, requires, invalid, warnings,
                   tc, steps, cpp_info>>

NextPair == IM_generate \/ Peer_generate

SpecPair == InitPair /\ [][NextPair]_vars

-----------------------------------------------------------------------------
(* Properties *)

\* the methods of the run that have returned or raised
Past(m) ==
    LET ms == MethodsOf(recipe)
        at(x) == CHOOSE k \in 1..Len(ms) : ms[k] = x
    IN  IF pc.m = "invalid" THEN at(m) <= at("validate")
        ELSE IF pc.m = "failed" THEN at(m) < at(IF recipe = TP THEN "build" ELSE "source")
        ELSE at(m) < at(pc.m)

\* C1: imagemagick6 validate() raises ConanInvalidConfiguration exactly when
\* settings.os is Windows, whatever the options; with_pango on Macos and with_djvu
\* write a warning and leave the configuration accepted.
C1_ValidateRejectsExactlyWindows ==
    (recipe = IM /\ Past("validate")) =>
        /\ invalid <=> os = "Windows"
        /\ (pc.m = "invalid") <=> os = "Windows"
        /\ (os = "Macos" /\ options.with_pango = "True") =>
              \E i \in 1..Len(warnings) : warnings[i] = PangoWarning
        /\ (os # "Windows" /\ options.with_djvu = "True") =>
              \E i \in 1..Len(warnings) : warnings[i] = DjvuWarning

C1_Witness ==
    /\ recipe = IM /\ Past("validate") /\ os = "Macos"
    /\ options.with_pango = "True" /\ options.with_djvu = "True"
    /\ warnings = <<PangoWarning, DjvuWarning>>
    /\ ~invalid /\ pc.m = "source"

\* the library name the naming convention gives: B-M.QD, then HDRI iff hdri
ConventionName(B, M, D, hdri) ==
    B \o "-" \o M \o ".Q" \o D \o (IF hdri THEN "HDRI" ELSE "")

\* the major number of each version of the runs
MajorOf(v) == IF v = "6.9.12-85" THEN "6" ELSE IF v = "7.1.1-38" THEN "7" ELSE "?"

\* C2: for every module B, quantum_depth D, hdri value and version of major M,
\* _libname(B) is "B-M.QD" followed by "HDRI" iff hdri is true, and package_info()
\* sets it as the single entry of the component's libs.
C2_LibNameConvention ==
    (recipe = IM /\ cpp_info.filled) =>
        \A k \in 1..Len(_modules) :
            LET B == _modules[k]
                name == ConventionName(B, MajorOf(version), options.quantum_depth,
                                       options.hdri = "True")
            IN  /\ options.quantum_depth \in {"8", "16", "32"}
                /\ _libname(version, options, B) = name
                /\ cpp_info.components[B].libs = <<name>>

C2_Witness ==
    /\ recipe = IM /\ cpp_info.filled
    /\ version = "7.1.1-38" /\ options.quantum_depth = "32" /\ options.hdri = "False"
    /\ cpp_info.components["Magick++"].libs = <<"Magick++-7.Q32">>

\* C3: every default of the cppcheck and imagemagick6 recipes is a value of its
\* option's declared list, and in every state of a run every option still present
\* holds a value of its declared list.
C3_OptionValuesDeclared ==
    /\ \A r \in {IM, CPP} :
          /\ DOMAIN DefaultOptions(r) = DOMAIN DeclaredOptions(r)
          /\ \A n \in DOMAIN DeclaredOptions(r) :
                DefaultOptions(r)[n] \in Range(DeclaredOptions(r)[n])
    /\ Range(IMOptions.with_jpeg) = {"None", "libjpeg", "libjpeg-turbo"}
    /\ DOMAIN options \subseteq DOMAIN DeclaredOptions(recipe)
    /\ \A n \in DOMAIN options : options[n] \in Range(DeclaredOptions(recipe)[n])

C3_Witness ==
    /\ recipe = IM /\ pc.m = "done"
    /\ "fPIC" \notin DOMAIN options /\ options.shared = "True"
    /\ options.with_jpeg = "None"

\* the package name of a reference "name/version"
RefName(ref) == Before(ref, "/")

RequiredNames == {RefName(requires[i]) : i \in 1..Len(requires)}

\* the packages the imagemagick6 recipe can require, each with its controlling option
IMControlled ==
    { <<"zlib", "with_zlib">>, <<"bzip2", "with_bzlib">>, <<"xz_utils", "with_lzma">>,
      <<"lcms", "with_lcms">>, <<"openexr", "with_openexr">>, <<"libheif", "with_heic">>,
      <<"jbig", "with_jbig">>, <<"openjpeg", "with_openjp2">>, <<"pango", "with_pango">>,
      <<"libpng", "with_png">>, <<"libwebp", "with_webp">>, <<"libxml2", "with_xml2">>,
      <<"freetype", "with_freetype">>, <<"libtiff", "with_tiff">>, <<"zstd", "with_tiff">> }

\* C4: requirements() declares a dependency exactly when its controlling option is
\* true: the with_* packages of imagemagick6 (libtiff and zstd both under with_tiff),
\* libjpeg iff with_jpeg is libjpeg and libjpeg-turbo iff it is libjpeg-turbo, pcre
\* of cppcheck iff have_rules; nothing else is declared, and nothing twice.
C4_RequiresIffOption ==
    LET names == RequiredNames
    IN  /\ (recipe = IM /\ Past("requirements")) =>
              /\ \A c \in IMControlled : (c[1] \in names) <=> (options[c[2]] = "True")
              /\ ("libjpeg" \in names) <=> (options.with_jpeg = "libjpeg")
              /\ ("libjpeg-turbo" \in names) <=> (options.with_jpeg = "libjpeg-turbo")
              /\ names \subseteq {c[1] : c \in IMControlled} \cup {"libjpeg", "libjpeg-turbo"}
              /\ Cardinality(names) = Len(requires)
        /\ (recipe = CPP /\ Past("requirements")) =>
              /\ ("pcre" \in names) <=> (options.have_rules = "True")
              /\ names \subseteq {"pcre"}
              /\ Len(requires) <= 1

C4_Witness ==
    /\ recipe = IM /\ Past("requirements")
    /\ options.with_jpeg = "libjpeg-turbo" /\ options.with_tiff = "False"
    /\ LET names == RequiredNames
       IN  /\ "libjpeg-turbo" \in names /\ "zlib" \in names
           /\ "zstd" \notin names /\ "libtiff" \notin names /\ "libjpeg" \notin names

\* the position of the first call of a tool in the run, 0 when it was not called
FirstCall(name) ==
    IF \E i \in 1..Len(steps) : steps[i].call = name
    THEN CHOOSE i \in 1..Len(steps) :
            steps[i].call = name /\ \A j \in 1..(i - 1) : steps[j].call # name
    ELSE 0

TimesCalled(name) == Cardinality({i \in 1..Len(steps) : steps[i].call = name})

\* tool b was not started unless tool a had returned before
CompletedBefore(a, b) ==
    FirstCall(b) # 0 => \E i \in 1..(FirstCall(b) - 1) : steps[i] = Call(a, TRUE)

\* C5: a run is one sequential pass: configure starts only after the source fetch
\* and the patches have returned, the build only after configure has returned, the
\* install only after the build has returned, and no step is made twice.
C5_SequentialPass ==
    /\ \A i \in 1..Len(steps) : TimesCalled(steps[i].call) = 1
    /\ \A i \in 1..(Len(steps) - 1) : steps[i].ok
    /\ recipe = IM =>
          /\ CompletedBefore("get", "Autotools.configure")
          /\ CompletedBefore("apply_conandata_patches", "Autotools.configure")
          /\ CompletedBefore("Autotools.configure", "Autotools.make")
          /\ CompletedBefore("Autotools.make", "Autotools.install")
          /\ FirstCall("Autotools.configure") # 0 => tc.generated
    /\ recipe = CPP =>
          /\ CompletedBefore("get", "CMake.configure")
          /\ CompletedBefore("apply_conandata_patches", "CMake.configure")
          /\ CompletedBefore("CMake.configure", "CMake.build")
          /\ CompletedBefore("CMake.build", "CMake.install")
          /\ FirstCall("CMake.configure") # 0 => tc.generated

C5_Witness ==
    /\ recipe = IM /\ pc.m = "done"
    /\ FirstCall("get") = 1 /\ FirstCall("apply_conandata_patches") = 2
    /\ FirstCall("Autotools.configure") = 3 /\ FirstCall("Autotools.make") = 4
    /\ FirstCall("Autotools.install") = 7

\* the options the configure arguments are claimed to tell apart
ArgumentOptions == DOMAIN IMOptions \ {"fPIC"}

BothGenerated == recipe = IM /\ tc.generated /\ peer.tc.generated

\* C6 as stated: two option assignments that differ in shared, hdri, quantum_depth,
\* utilities or any with_* option (with_jpeg in any of its three values) get
\* different configure argument lists.
C6_OneToOne ==
    (BothGenerated /\ \E n \in ArgumentOptions : options[n] # peer.options[n]) =>
        tc.configure_args # peer.tc.configure_args

\* C6 amended: the configure argument lists of two option assignments are equal
\* exactly when the assignments agree on shared, hdri, quantum_depth, utilities and
\* every with_* option, with_jpeg counted only as None or not None: libjpeg and
\* libjpeg-turbo both give --with-jpeg=yes.
C6_OneToOneUpToJpegBackend ==
    BothGenerated =>
        ( tc.configure_args = peer.tc.configure_args
          <=> \A n \in ArgumentOptions :
                 IF n = "with_jpeg"
                 THEN (options[n] = "None") <=> (peer.options[n] = "None")
                 ELSE options[n] = peer.options[n] )

C6_Witness ==
    /\ BothGenerated
    /\ options.with_jpeg = "libjpeg" /\ peer.options.with_jpeg = "libjpeg-turbo"
    /\ tc.configure_args = peer.tc.configure_args
    /\ tc.configure_args[23] = "--with-jpeg=yes"

\* a dotted version of decimal numbers
IsDottedNumber(v) ==
    LET parts == Split(v, ".")
    IN  \A k \in 1..Len(parts) : IsNumber(parts[k])

StartsWith(s, prefix) == Len(s) >= Len(prefix) /\ SubSeq(s, 1, Len(prefix)) = prefix

\* "[>=LO <HI]" with LO and HI dotted numbers and LO strictly below HI
WellFormedRange(r) ==
    /\ Len(r) >= 2 /\ CharAt(r, 1) = "[" /\ CharAt(r, Len(r)) = "]"
    /\ LET terms == Split(SubSeq(r, 2, Len(r) - 1), " ")
       IN  /\ Len(terms) = 2
           /\ StartsWith(terms[1], ">=")
           /\ StartsWith(terms[2], "<") /\ ~StartsWith(terms[2], "<=")
           /\ LET lo == SubSeq(terms[1], 3, Len(terms[1]))
                  hi == SubSeq(terms[2], 2, Len(terms[2]))
              IN  /\ IsDottedNumber(lo) /\ IsDottedNumber(hi)
                  /\ VersionLess(lo, hi)

\* the version part of a reference "name/version"
RefVersion(ref) == After(ref, "/")

RangedPackages == {"xz_utils", "libheif", "openjpeg", "libpng", "libtiff", "libwebp"}

\* C7: every version range a recipe declares (xz_utils, libheif, openjpeg, libpng,
\* libtiff and libwebp of imagemagick6, and no other reference) is a bracketed
\* ">=LO <HI" with the lower bound strictly below the upper bound.
C7_RangesWellFormed ==
    \A i \in 1..Len(requires) :
        LET ver == RefVersion(requires[i])
        IN  IF RefName(requires[i]) \in RangedPackages /\ recipe = IM
            THEN WellFormedRange(ver)
            ELSE Find(ver, "[") = 0 /\ Find(ver, "<") = 0 /\ Find(ver, ">") = 0

C7_Witness ==
    /\ recipe = IM /\ Past("requirements")
    /\ RangedPackages \subseteq RequiredNames
    /\ \E i \in 1..Len(requires) : requires[i] = "libtiff/[>=4.6.0 <5]"

\* C8: in every configuration validate() accepts, the pkg_config_name that
\* package_info() sets for each component equals the component's library name;
\* package_info() runs for no configuration that validate() rejects.
C8_PkgConfigNameIsLibName ==
    (recipe = IM /\ cpp_info.filled) =>
        /\ ~invalid /\ os # "Windows"
        /\ \A k \in 1..Len(_modules) :
              LET c == cpp_info.components[_modules[k]]
              IN  /\ c.libs = <<c.pkg_config_name>>
                  /\ c.pkg_config_name = _libname(version, options, _modules[k])

C8_Witness ==
    /\ recipe = IM /\ cpp_info.filled /\ os = "Macos" /\ options.hdri = "True"
    /\ cpp_info.components["MagickWand"].pkg_config_name = "MagickWand-6.Q16HDRI"
    /\ cpp_info.components["MagickWand"].libs = <<"MagickWand-6.Q16HDRI">>

\* C9: the vectorscan test package runs no executable when can_run is false; when
\* can_run is true it runs hs_example first, and ch_example after hs_example has
\* returned exactly when the dependency's with_chimera is true; ch_example runs only
\* in a run whose generate() set BUILD_CHIMERA to True.
C9_TestRunsChimeraIffOption ==
    recipe = TP =>
        /\ ~dep.can_run => FirstCall(HsExample) = 0 /\ FirstCall(ChExample) = 0
        /\ FirstCall(ChExample) # 0 =>
              /\ dep.can_run /\ dep.with_chimera
              /\ CompletedBefore(HsExample, ChExample)
              /\ \E k \in 1..Len(tc.variables) : tc.variables[k] = <<"BUILD_CHIMERA", "True">>
        /\ (pc.m = "done" /\ dep.can_run) =>
              /\ FirstCall(HsExample) # 0
              /\ FirstCall(ChExample) # 0 <=> dep.with_chimera
        /\ Past("generate") =>
              tc.variables = << <<"BUILD_CHIMERA", IF dep.with_chimera THEN "True" ELSE "False">> >>

C9_Witness ==
    /\ recipe = TP /\ pc.m = "done" /\ dep.can_run /\ dep.with_chimera
    /\ steps = << Call("CMake.configure", TRUE), Call("CMake.build", TRUE),
                  Call(HsExample, TRUE), Call(ChExample, TRUE) >>

\* the package of a component requirement "pkg::component"
ComponentPackage(req) == Before(req, ":")

\* the component of a component requirement "pkg::component"
ComponentName(req) == After(After(req, ":"), ":")

\* C10: for every imagemagick6 option assignment the packages that requirements()
\* declares are the packages that package_info() lists, each as pkg::pkg, in the
\* requires of the MagickCore component.
C10_RequiresMatchComponent ==
    (recipe = IM /\ cpp_info.filled) =>
        LET creq == cpp_info.components["MagickCore"].requires
        IN  /\ RequiredNames = {ComponentPackage(creq[i]) : i \in 1..Len(creq)}
            /\ \A i \in 1..Len(creq) :
                  creq[i] = ComponentPackage(creq[i]) \o "::" \o ComponentName(creq[i])
                  /\ ComponentName(creq[i]) = ComponentPackage(creq[i])
            /\ Len(creq) = Len(requires)

C10_Witness ==
    /\ recipe = IM /\ cpp_info.filled
    /\ options.with_jpeg = "libjpeg-turbo" /\ options.with_xml2 = "True"
    /\ \E i \in 1..Len(cpp_info.components["MagickCore"].requires) :
          cpp_info.components["MagickCore"].requires[i] = "libjpeg-turbo::libjpeg-turbo"
    /\ \E i \in 1..Len(requires) : requires[i] = "libjpeg-turbo/3.0.3"

\* the entries of a list of "key=value" strings that set the key
Setting(entries, key) ==
    {j \in 1..Len(entries) : StartsWith(entries[j], key \o "=")}

\* the values the list gives to the key
ValuesOf(entries, key) ==
    {SubSeq(entries[j], Len(key) + 2, Len(entries[j])) : j \in Setting(entries, key)}

\* the number of entries of the list that set the key
TimesSet(entries, key) == Cardinality(Setting(entries, key))

\* C11: the compile definitions package_info() exports agree with the flags
\* generate() configured the library with: MAGICKCORE_QUANTUM_DEPTH is the value of
\* --with-quantum-depth, MAGICKCORE_HDRI_ENABLE is 1 iff --enable-hdri=yes and 0
\* otherwise, exactly one of _MAGICKDLL_=1 and _MAGICKLIB_=1 is defined, _MAGICKDLL_
\* iff --enable-shared=yes, and exactly one of --enable-shared, --enable-static is yes.
C11_DefinesAgreeWithFlags ==
    /\ (recipe = IM /\ tc.generated) =>
          LET args == tc.configure_args
          IN  /\ TimesSet(args, "--enable-shared") = 1
              /\ TimesSet(args, "--enable-static") = 1
              /\ ValuesOf(args, "--enable-shared") \cup ValuesOf(args, "--enable-static")
                    = {"yes", "no"}
    /\ (recipe = IM /\ cpp_info.filled) =>
          LET args == tc.configure_args
              defs == cpp_info.components["MagickCore"].defines
              depth == ValuesOf(args, "--with-quantum-depth")
              hdri == ValuesOf(args, "--enable-hdri")
              shrd == ValuesOf(args, "--enable-shared")
              dll == TimesSet(defs, "_MAGICKDLL_")
              lib == TimesSet(defs, "_MAGICKLIB_")
          IN  /\ tc.generated
              /\ TimesSet(args, "--with-quantum-depth") = 1
              /\ TimesSet(defs, "MAGICKCORE_QUANTUM_DEPTH") = 1
              /\ ValuesOf(defs, "MAGICKCORE_QUANTUM_DEPTH") = depth
              /\ depth \subseteq {"8", "16", "32"}
              /\ TimesSet(args, "--enable-hdri") = 1
              /\ TimesSet(defs, "MAGICKCORE_HDRI_ENABLE") = 1
              /\ hdri \subseteq {"yes", "no"}
              /\ ValuesOf(defs, "MAGICKCORE_HDRI_ENABLE")
                    = (IF hdri = {"yes"} THEN {"1"} ELSE {"0"})
              /\ dll + lib = 1
              /\ ValuesOf(defs, "_MAGICKDLL_") \cup ValuesOf(defs, "_MAGICKLIB_") = {"1"}
              /\ dll = 1 <=> shrd = {"yes"}

C11_Witness ==
    /\ recipe = IM /\ cpp_info.filled
    /\ options.shared = "True" /\ options.hdri = "False"
    /\ cpp_info.components["MagickCore"].defines
          = <<"MAGICKCORE_QUANTUM_DEPTH=16", "MAGICKCORE_HDRI_ENABLE=0", "_MAGICKDLL_=1">>
    /\ tc.configure_args[12] = "--enable-shared=yes"
    /\ tc.configure_args[13] = "--enable-static=no"
    /\ tc.configure_args[14] = "--enable-hdri=no"
    /\ tc.configure_args[15] = "--with-quantum-depth=16"

====
